---- MODULE Spec2Model ----
(***************************************************************************)
(* lrlex, src/lib/builder.rs: process_file compiles a .l file into a Rust  *)
(* module.  It reads the input, parses it into a LexerDef, optionally      *)
(* synchronises the rule ids with rule_ids_map, renders the module text    *)
(* and writes it to the output path unless the file already holds exactly  *)
(* that text.                                                              *)
(*                                                                         *)
(* A text is a sequence of lines; a line is a sequence of string pieces    *)
(* (fixed fragments of the format strings, and single characters for the   *)
(* parts that are formatted from data).                                    *)
(***************************************************************************)
EXTENDS Integers, Sequences, FiniteSets, TLC

VARIABLES inp, out, last

vars == <<inp, out, last>>

----------------------------------------------------------------------------
\* Bounds of the model.

\* Longest rule table read from the input file.
MaxRules == 2
\* Largest token id a rule_ids_map hands out.
MaxId == 1
\* Number of times the output file is created or replaced in one behaviour.
MaxWrites == 2
\* Longest pattern of the escaping specification.
MaxPatLen == 4

\* Rule names, which are also the keys of rule_ids_map.
Names == {"a", "b"}
\* Characters of a pattern: backslash, double quote, an ordinary character.
Alphabet == {"\\", "\"", "x"}
\* Patterns of the rule tables of Spec.
TablePats == {<<"\\", "x">>, <<"\"">>}
\* File stems of the input path.
Stems == {"lex"}

----------------------------------------------------------------------------
\* Option<T>, one None per payload type.

Some(x) == [some |-> TRUE, v |-> x]
NoneStr == [some |-> FALSE, v |-> ""]
NoneId == [some |-> FALSE, v |-> 0]
NoneSet == [some |-> FALSE, v |-> {}]

\* HashSet<&str> -> HashSet<String>: b.to_string() of every element.
ToStringSet(a) == {b : b \in a}

\* x.map(|a| a.iter().map(|b| b.to_string()).collect::<HashSet<_>>())
MapToStringSet(o) == IF o.some THEN Some(ToStringSet(o.v)) ELSE NoneSet

----------------------------------------------------------------------------
\* rule_ids_map: a HashMap<String, TokId>, as a set of <<name, id>> entries
\* with one entry per key.

Keys(m) == {e[1] : e \in m}
Get(m, k) == (CHOOSE e \in m : e[1] = k)[2]

HashMaps == {m \in SUBSET (Names \X (0..MaxId)) :
                \A e1, e2 \in m : e1[1] = e2[1] => e1 = e2}

\* The orders in which iterating a HashMap can yield its entries: the hasher
\* is seeded at random, any order of the entries can come out.
IterOrders(m) == {s \in [1..Cardinality(m) -> m] :
                     \A i, j \in 1..Cardinality(m) : s[i] = s[j] => i = j}

----------------------------------------------------------------------------
\* Formatting.

Digit(d) == <<"0", "1", "2", "3", "4", "5", "6", "7", "8", "9">>[d + 1]

\* {:?} of an unsigned integer: its decimal digits.
RECURSIVE DebugNum(_)
DebugNum(n) == IF n < 10 THEN <<Digit(n)>>
               ELSE DebugNum(n \div 10) \o <<Digit(n % 10)>>

\* to_ascii_uppercase of a name.
ToAsciiUppercase(n) == CASE n = "a" -> "A"
                         [] n = "b" -> "B"
                         [] OTHER -> n

\* TokId::type_name()
TypeName == "u8"

\* str::replace(from, to) for a one character pattern.
RECURSIVE Replace(_, _, _)
Replace(s, from, to) ==
    IF s = <<>> THEN <<>>
    ELSE (IF Head(s) = from THEN to ELSE <<Head(s)>>) \o Replace(Tail(s), from, to)

\* The escaping with the two replacements in the other order.
EscapeQuoteFirst(re_str) ==
    Replace(Replace(re_str, "\"", <<"\\", "\"">>), "\\", <<"\\", "\\">>)

\* r.re_str.replace("\\", "\\\\").replace("\"", "\\\"")
Escape(re_str) ==
    Replace(Replace(re_str, "\\", <<"\\", "\\">>), "\"", <<"\\", "\"">>)

\* A rule's id always rendered as None.
TokIdPPNone(t) == <<"None">>

\* match r.tok_id { Some(t) => "Some({:?})", None => "None" }
TokIdPP(t) == IF t.some THEN <<"Some(">> \o DebugNum(t.v) \o <<")">>
              ELSE <<"None">>

\* match r.name { Some(n) => "Some({:?}.to_string())", None => "None" }
NamePP(n) == IF n.some THEN <<"Some(\"", n.v, "\".to_string())">>
             ELSE <<"None">>

\* One rule descriptor: Rule::new({}, {}, "{}".to_string()).unwrap(),
RulePP(r) == <<"Rule::new(">> \o TokIdPP(r.tok_id) \o <<", ">> \o NamePP(r.name)
             \o <<", \"">> \o Escape(r.re_str) \o <<"\".to_string()).unwrap(),">>

\* The rule descriptors, last rule first.
RECURSIVE RulesPPReversed(_)
RulesPPReversed(rules) ==
    IF rules = <<>> THEN <<>>
    ELSE RulesPPReversed(Tail(rules)) \o <<RulePP(Head(rules))>>

\* for r in &self.rules: one line per rule, in the order of the table.
RECURSIVE RulesPP(_)
RulesPP(rules) ==
    IF rules = <<>> THEN <<>>
    ELSE <<RulePP(Head(rules))>> \o RulesPP(Tail(rules))

\* LexerDef::rust_pp, appended to the text outs whose last line is still open.
rust_pp(lexerdef, outs) ==
    LET n == Len(outs)
        first == outs[n] \o <<"use lrlex::{LexerDef, Rule};">>
    IN  SubSeq(outs, 1, n - 1)
        \o << first,
              <<>>,
              <<"pub fn lexerdef() -> LexerDef<", TypeName, "> {">>,
              <<"    let rules = vec![">> >>
        \o RulesPP(lexerdef.rules)
        \o << <<"];">>,
              <<"    LexerDef::new(rules)">>,
              <<"}">>,
              <<>> >>

\* The constants of the entries but the last one yielded.
RECURSIVE TokenIdsDropLast(_)
TokenIdsDropLast(order) ==
    IF Len(order) <= 1 THEN <<>>
    ELSE << <<"#[allow(dead_code)]">>,
            <<"const T_", ToAsciiUppercase(Head(order)[1]), ": ", TypeName, " = ">>
                \o DebugNum(Head(order)[2]) \o <<";">> >>
         \o TokenIdsDropLast(Tail(order))

\* for (n, id) in &rim: two lines per entry, in the order the map yields them.
RECURSIVE TokenIds(_)
TokenIds(order) ==
    IF order = <<>> THEN <<>>
    ELSE << <<"#[allow(dead_code)]">>,
            <<"const T_", ToAsciiUppercase(Head(order)[1]), ": ", TypeName, " = ">>
                \o DebugNum(Head(order)[2]) \o <<";">> >>
         \o TokenIds(Tail(order))

\* Appends complete lines to a text whose last line is open and empty.
AppendLines(outs, lines) == SubSeq(outs, 1, Len(outs) - 1) \o lines \o << <<>> >>

\* Appends a fragment without a newline to the open last line.
PushStr(outs, frag) ==
    SubSeq(outs, 1, Len(outs) - 1) \o <<outs[Len(outs)] \o frag>>

\* The text process_file builds: the module's opening, rust_pp's output, the
\* token id constants, the closing brace.
Render(lexerdef, rim, order, mod_name) ==
    LET header == << <<"mod ", mod_name, "_l {">> >>
        body == rust_pp(lexerdef, header)
        ids == IF rim.some THEN AppendLines(body, TokenIds(order)) ELSE body
    IN  PushStr(ids, <<"}">>)

----------------------------------------------------------------------------
\* The collaborators outside builder.rs.

\* parse_lex: the rules of the input in their order, each with an id of its
\* own (arbitrary but distinct: here the rule's index).
parse_lex(inc) ==
    [rules |-> [i \in 1..Len(inc) |->
                   [tok_id |-> Some(i - 1), name |-> inc[i].name,
                    re_str |-> inc[i].re_str]]]

\* The rule names of a table.
RuleNames(rules) == {rules[i].name.v : i \in {j \in 1..Len(rules) : rules[j].name.some}}

\* LexerDef::set_rule_ids: a named rule whose name is a key of the map takes
\* the mapped id, every other rule keeps its id; returns the map's names that
\* name no rule and the rule names that the map lacks.
set_rule_ids(lexerdef, m) ==
    [lexerdef |->
        [rules |-> [i \in 1..Len(lexerdef.rules) |->
            LET r == lexerdef.rules[i]
            IN  IF r.name.some /\ r.name.v \in Keys(m)
                THEN [r EXCEPT !.tok_id = Some(Get(m, r.name.v))]
                ELSE r]],
     missing_from_lexer |-> Some(Keys(m) \ RuleNames(lexerdef.rules)),
     missing_from_parser |-> Some(RuleNames(lexerdef.rules) \ Keys(m))]

----------------------------------------------------------------------------
\* process_file

\* The two returned sets taken the other way round.
SyncIdsSwapped(lexerdef, rule_ids_map) ==
    IF rule_ids_map.some
    THEN LET r == set_rule_ids(lexerdef, rule_ids_map.v)
         IN  [lexerdef |-> r.lexerdef,
              ret |-> << MapToStringSet(r.missing_from_parser),
                         MapToStringSet(r.missing_from_lexer) >>]
    ELSE [lexerdef |-> lexerdef, ret |-> <<NoneSet, NoneSet>>]

\* let (missing_from_lexer, missing_from_parser) = match rule_ids_map { .. }
SyncIds(lexerdef, rule_ids_map) ==
    IF rule_ids_map.some
    THEN LET r == set_rule_ids(lexerdef, rule_ids_map.v)
         IN  [lexerdef |-> r.lexerdef,
              ret |-> << MapToStringSet(r.missing_from_lexer),
                         MapToStringSet(r.missing_from_parser) >>]
    ELSE [lexerdef |-> lexerdef, ret |-> <<NoneSet, NoneSet>>]

\* The comparison never finds the file up to date.
NeverSameContents(f, outs) == FALSE

\* if let Ok(curs) = read_to_string(&outp) { if curs == outs { .. } }
SameContents(f, outs) == f.exists /\ f.content = outs

\* No invocation yet, or another writer has been at the output since.
NoCall == [kind |-> "none", rule_ids_map |-> [some |-> FALSE, v |-> {}],
           order |-> <<>>, res |-> "none", ret |-> <<NoneSet, NoneSet>>,
           lexerdef |-> [rules |-> <<>>], outs |-> <<>>, wrote |-> FALSE]

\* The file system's answers to File::create and write_all.
IoOutcomes == {"ok", "create_fails", "write_fails"}

\* One invocation process_file(inp, outp, rule_ids_map); order is the order in
\* which the map yields its entries.
ProcessFile(rule_ids_map, order) ==
    /\ out.mtime < MaxWrites
    /\ UNCHANGED inp
    /\ IF inp.kind = "missing"
       THEN \* read_to_string(&inp).unwrap() panics
            /\ last' = [NoCall EXCEPT !.kind = "call", !.res = "panic",
                                      !.rule_ids_map = rule_ids_map, !.order = order]
            /\ UNCHANGED out
       ELSE IF inp.kind = "malformed"
       THEN \* parse_lex(&inc)? returns the error
            /\ last' = [NoCall EXCEPT !.kind = "call", !.res = "err",
                                      !.rule_ids_map = rule_ids_map, !.order = order]
            /\ UNCHANGED out
       ELSE LET sync == SyncIds(parse_lex(inp.rules), rule_ids_map)
                outs == Render(sync.lexerdef, rule_ids_map, order, inp.stem)
                call == [kind |-> "call", rule_ids_map |-> rule_ids_map,
                         order |-> order, res |-> "ok", ret |-> sync.ret,
                         lexerdef |-> sync.lexerdef, outs |-> outs, wrote |-> FALSE]
            IN  IF SameContents(out, outs)
                THEN /\ last' = call
                     /\ UNCHANGED out
                ELSE \E io \in IoOutcomes :
                     IF io = "create_fails"
                     THEN \* File::create(outp)? returns the error
                          /\ last' = [call EXCEPT !.res = "err"]
                          /\ UNCHANGED out
                     ELSE IF io = "write_fails"
                     THEN \* the file is truncated, write_all(..)? returns the error
                          /\ last' = [call EXCEPT !.res = "err", !.wrote = TRUE]
                          /\ out' = [exists |-> TRUE, content |-> <<>>,
                                     mtime |-> out.mtime + 1]
                     ELSE /\ last' = [call EXCEPT !.wrote = TRUE]
                          /\ out' = [exists |-> TRUE, content |-> outs,
                                     mtime |-> out.mtime + 1]

\* process_file called without a rule_ids_map.
CallWithoutMap == ProcessFile([some |-> FALSE, v |-> {}], <<>>)

\* process_file called with Some(rule_ids_map).
CallWithMap ==
    \E m \in HashMaps : \E order \in IterOrders(m) : ProcessFile(Some(m), order)

\* Something else replaces the output file.
OtherWriter ==
    /\ out.mtime < MaxWrites
    /\ out' = [exists |-> TRUE, content |-> << <<"stale">> >>, mtime |-> out.mtime + 1]
    /\ last' = NoCall
    /\ UNCHANGED inp

\* Something else removes the output file.
OtherRemover ==
    /\ out.exists
    /\ out.mtime < MaxWrites
    /\ out' = [exists |-> FALSE, content |-> <<>>, mtime |-> out.mtime + 1]
    /\ last' = NoCall
    /\ UNCHANGED inp

\* The rules an input file can hold.
InputRules == [name : {NoneStr} \cup {Some(n) : n \in Names}, re_str : TablePats]

RuleTables == UNION {[1..n -> InputRules] : n \in 0..MaxRules}

\* The input file: absent, not a lex file, or a lex file with its rules.
Inputs ==
    {[kind |-> k, stem |-> s, rules |-> <<>>] : k \in {"missing", "malformed"}, s \in Stems}
    \cup {[kind |-> "ok", stem |-> s, rules |-> t] : s \in Stems, t \in RuleTables}

Init ==
    /\ inp \in Inputs
    /\ out = [exists |-> FALSE, content |-> <<>>, mtime |-> 0]
    /\ last = NoCall

Next == CallWithoutMap \/ CallWithMap \/ OtherWriter \/ OtherRemover

Spec == Init /\ [][Next]_vars

----------------------------------------------------------------------------
\* The escaping on its own: rust_pp applied to a table of one unnamed rule
\* whose pattern is any string over Alphabet of at most MaxPatLen characters.

Patterns == UNION {[1..n -> Alphabet] : n \in 0..MaxPatLen}

InitEscape ==
    /\ inp \in {[kind |-> "ok", stem |-> s,
                 rules |-> <<[name |-> NoneStr, re_str |-> p]>>] :
                    s \in Stems, p \in Patterns}
    /\ out = [exists |-> FALSE, content |-> <<>>, mtime |-> 0]
    /\ last = NoCall

\* lexerdef.rust_pp(&mut outs) on an empty text.
PrettyPrint ==
    /\ last.kind = "none"
    /\ last' = [NoCall EXCEPT !.kind = "pp",
                              !.lexerdef = parse_lex(inp.rules),
                              !.outs = rust_pp(parse_lex(inp.rules), << <<>> >>)]
    /\ UNCHANGED <<inp, out>>

NextEscape == PrettyPrint

SpecEscape == InitEscape /\ [][NextEscape]_vars

----------------------------------------------------------------------------
\* Reading a rendered text back.

IsRuleLine(l) == Len(l) > 0 /\ l[1] = "Rule::new("
IsConstLine(l) == Len(l) > 0 /\ l[1] = "const T_"

\* The rule descriptors of a text, in the order of the text.
RuleLines(text) == SelectSeq(text, IsRuleLine)


DigitVal(c) == CHOOSE d \in 0..9 : Digit(d) = c

RECURSIVE ParseNum(_)
ParseNum(ds) == IF Len(ds) = 1 THEN DigitVal(ds[1])
                ELSE 10 * ParseNum(SubSeq(ds, 1, Len(ds) - 1)) + DigitVal(ds[Len(ds)])

\* Where the id of a descriptor ends.
DescIdEnd(l) == IF l[2] = "None" THEN 2
                ELSE CHOOSE k \in 3..Len(l) :
                        l[k] = ")" /\ \A j \in 3..(k - 1) : l[j] # ")"

\* The id a descriptor carries.
DescId(l) == IF l[2] = "None" THEN NoneId
             ELSE Some(ParseNum(SubSeq(l, 3, DescIdEnd(l) - 1)))

\* The name a descriptor carries.
DescName(l) == LET p == DescIdEnd(l) + 2
               IN  IF l[p] = "None" THEN NoneStr ELSE Some(l[p + 1])

\* The string literal of a descriptor, between its quotes.
DescLit(l) == LET p == DescIdEnd(l) + 2
                  q == IF l[p] = "None" THEN p + 1 ELSE p + 3
              IN  SubSeq(l, q + 1, Len(l) - 1)

\* The inverse of the escaping: a backslash and the character after it stand
\* for that character.
RECURSIVE Unescape(_)
Unescape(s) ==
    IF s = <<>> THEN <<>>
    ELSE IF Head(s) = "\\" /\ Len(s) >= 2
         THEN <<s[2]>> \o Unescape(SubSeq(s, 3, Len(s)))
         ELSE <<Head(s)>> \o Unescape(Tail(s))

\* The last invocation got as far as rendering.
Rendered == last.kind = "call" /\ inp.kind = "ok"

----------------------------------------------------------------------------
\* C1: an invocation that finds the output file holding exactly the text it
\* rendered returns success and leaves the file as it is: nothing is created,
\* truncated or written, content and modification state stay.
C1_EqualityGatedWrite ==
    [][ (last'.kind = "call" /\ inp.kind = "ok"
         /\ out.exists /\ out.content = last'.outs)
        => (out' = out /\ last'.res = "ok" /\ ~last'.wrote) ]_vars

\* An invocation found the file up to date after an earlier one wrote it.
C1_Witness ==
    /\ Rendered /\ last.res = "ok" /\ ~last.wrote
    /\ out.exists /\ out.mtime > 0 /\ out.content = last.outs

\* C2: a successful invocation followed by a second one with the same inputs,
\* no other writer in between, does not write the output on the second.
C2_IdempotentWrite ==
    [][ (last.kind = "call" /\ last.res = "ok"
         /\ last'.kind = "call" /\ last'.rule_ids_map = last.rule_ids_map)
        => out' = out ]_vars

\* C3: the rendered text is the same in whichever order the map's entries
\* are iterated.
C3_RenderDeterminism ==
    Rendered =>
        \A o \in IterOrders(last.rule_ids_map.v) :
            Render(last.lexerdef, last.rule_ids_map, o, inp.stem) = last.outs

\* C4: with a map, missing_from_lexer holds every key that names no rule,
\* missing_from_parser every rule name that is no key, neither holds a name
\* that is both, unnamed rules add nothing; without a map both are None.
C4_ReconciliationComplete ==
    (Rendered /\ last.res = "ok") =>
        LET names == RuleNames(inp.rules)
            mfl == last.ret[1]
            mfp == last.ret[2]
        IN  IF last.rule_ids_map.some
            THEN LET keys == Keys(last.rule_ids_map.v)
                 IN  /\ mfl.some /\ mfp.some
                     /\ \A k \in keys : k \notin names => k \in mfl.v
                     /\ \A n \in names : n \notin keys => n \in mfp.v
                     /\ \A n \in names \cap keys : n \notin mfl.v /\ n \notin mfp.v
                     /\ mfl.v \subseteq keys
                     /\ mfp.v \subseteq names
            ELSE mfl = NoneSet /\ mfp = NoneSet

\* Both sets are inhabited and the table has an unnamed rule.
C4_Witness ==
    /\ Rendered /\ last.res = "ok" /\ last.rule_ids_map.some
    /\ last.ret[1].v # {} /\ last.ret[2].v # {}
    /\ \E i \in 1..Len(inp.rules) : ~inp.rules[i].name.some

\* C5: after reconciliation a rule's id is the mapped one when a map is given
\* and the rule's name is one of its keys, and the id it had otherwise; the
\* rendered descriptors carry these ids.
C5_IdentifierRewrite ==
    Rendered =>
        /\ Len(last.lexerdef.rules) = Len(inp.rules)
        /\ Len(RuleLines(last.outs)) = Len(inp.rules)
        /\ \A i \in 1..Len(inp.rules) :
            LET before == parse_lex(inp.rules).rules[i]
                m == last.rule_ids_map
                expected == IF m.some /\ before.name.some /\ before.name.v \in Keys(m.v)
                            THEN Some(Get(m.v, before.name.v))
                            ELSE before.tok_id
            IN  /\ last.lexerdef.rules[i].tok_id = expected
                /\ DescId(RuleLines(last.outs)[i]) = expected

\* One rule was given a new id, another kept its own.
C5_Witness ==
    /\ Rendered /\ last.rule_ids_map.some /\ Len(inp.rules) = 2
    /\ last.lexerdef.rules[1].tok_id # parse_lex(inp.rules).rules[1].tok_id
    /\ inp.rules[2].name.some
    /\ inp.rules[2].name.v \notin Keys(last.rule_ids_map.v)
    /\ DescId(RuleLines(last.outs)[1]) = last.lexerdef.rules[1].tok_id

\* C6: no two rules of a table that process_file rendered with success carry
\* the same id.
C6_DistinctIds ==
    (Rendered /\ last.res = "ok") =>
        \A i, j \in 1..Len(last.lexerdef.rules) :
            (i # j /\ last.lexerdef.rules[i].tok_id.some)
                => last.lexerdef.rules[i].tok_id # last.lexerdef.rules[j].tok_id

\* C7: when the input cannot be read or is rejected, process_file returns an
\* error to its caller and the output is neither created nor modified.
C7_FailureReturnsError ==
    (last.kind = "call" /\ inp.kind \in {"missing", "malformed"})
        => (last.res = "err" /\ ~last.wrote)

\* C8: the rendered descriptors are as many as the rules and the i-th one is
\* rendered from the i-th rule, whatever the map.
C8_OrderPreserved ==
    Rendered =>
        LET ls == RuleLines(last.outs)
        IN  /\ Len(ls) = Len(inp.rules)
            /\ \A i \in 1..Len(inp.rules) :
                /\ DescName(ls[i]) = inp.rules[i].name
                /\ Unescape(DescLit(ls[i])) = inp.rules[i].re_str
                /\ DescId(ls[i]) = last.lexerdef.rules[i].tok_id

\* Two different rules, the first mapped to the larger id.
C8_Witness ==
    /\ Rendered /\ last.rule_ids_map.some /\ Len(inp.rules) = 2
    /\ inp.rules[1].name # inp.rules[2].name
    /\ inp.rules[1].re_str # inp.rules[2].re_str
    /\ DescId(RuleLines(last.outs)[1]).some
    /\ DescId(RuleLines(last.outs)[2]).some
    /\ DescId(RuleLines(last.outs)[1]).v > DescId(RuleLines(last.outs)[2]).v

\* The backslashes and double quotes of a pattern.
Specials(p) == {i \in 1..Len(p) : p[i] \in {"\\", "\""}}

\* C9: unescaping the literal rust_pp wrote for a pattern gives the pattern
\* back, and each backslash or double quote of it was escaped once.
C9_EscapeRoundTrip ==
    last.kind = "pp" =>
        LET ls == RuleLines(last.outs)
            p == inp.rules[1].re_str
        IN  /\ Len(ls) = 1
            /\ Unescape(DescLit(ls[1])) = p
            /\ Len(DescLit(ls[1])) = Len(p) + Cardinality(Specials(p))

\* A pattern with a backslash and a double quote has been escaped.
C9_Witness ==
    /\ last.kind = "pp"
    /\ \E i, j \in 1..Len(inp.rules[1].re_str) :
          inp.rules[1].re_str[i] = "\\" /\ inp.rules[1].re_str[j] = "\""

IsCtorLine(l) == Len(l) > 0 /\ l[1] = "pub fn lexerdef() -> LexerDef<"
IsNewLine(l) == l = <<"    LexerDef::new(rules)">>

\* Where a text has its constants, the head of the constructor function, the
\* construction of the LexerDef, and the rule descriptors.
ConstIdx(t) == {i \in 1..Len(t) : IsConstLine(t[i])}
CtorIdx(t) == {i \in 1..Len(t) : IsCtorLine(t[i])}
NewIdx(t) == {i \in 1..Len(t) : IsNewLine(t[i])}
RuleIdx(t) == {i \in 1..Len(t) : IsRuleLine(t[i])}

\* C10 as stated: every constant declaration comes before the function that
\* constructs the rule table.
C10_ConstantsBeforeTable ==
    Rendered =>
        \A i \in ConstIdx(last.outs) :
            \A j \in CtorIdx(last.outs) : i < j

\* C10 as the code has it: the module's opening, then the function that
\* constructs the rule table, then one constant per entry of the map (none
\* without a map), then the closing brace.
C10_PartOrder ==
    Rendered =>
        LET t == last.outs
            consts == ConstIdx(t)
            m == IF last.rule_ids_map.some THEN last.rule_ids_map.v ELSE {}
        IN  /\ SubSeq(t[1], 1, 3) = <<"mod ", inp.stem, "_l {">>
            /\ Cardinality(CtorIdx(t)) = 1
            /\ Cardinality(NewIdx(t)) = 1
            /\ t[Len(t)] = <<"}">>
            /\ Cardinality(consts) = Cardinality(m)
            /\ \A e \in m :
                  Cardinality({i \in consts :
                      t[i] = <<"const T_", ToAsciiUppercase(e[1]), ": ", TypeName, " = ">>
                             \o DebugNum(e[2]) \o <<";">>}) = 1
            /\ \A i \in consts :
                  /\ i < Len(t)
                  /\ \A j \in CtorIdx(t) \cup NewIdx(t) \cup RuleIdx(t) : j < i

\* Two constants were rendered, one of them for a name that names no rule.
C10_Witness ==
    /\ Rendered /\ last.rule_ids_map.some
    /\ Cardinality(last.rule_ids_map.v) = 2
    /\ last.ret[1].v # {}
    /\ Cardinality(ConstIdx(last.outs)) = 2
    /\ Len(inp.rules) > 0

====
